---- MODULE Spec2Model ----
(***************************************************************************)
(* Model of cassandra_connector/CassandraConnector.py:                     *)
(*   CassandraConnectionsManager.get_connector and the construction of a   *)
(*   CassandraConnector (secure connect bundle resolution, bundle URL      *)
(*   discovery, driver set-up).                                            *)
(*                                                                         *)
(* A Python str is a sequence of tokens (TLA+ strings): a token is a       *)
(* separator ("-", "/", "https://", the Astra domain suffix, ...) or a     *)
(* maximal run of characters holding no separator.  None, '' and a missing *)
(* dict key that the code only reads through truthiness are all <<>>.      *)
(* A Python dict is a function whose DOMAIN is the set of keys present.    *)
(***************************************************************************)
EXTENDS Integers, Sequences, FiniteSets, TLC

VARIABLES
    connection_params,  \* CassandraConnectionsManager._connection_params
    connections,        \* CassandraConnectionsManager._connections
    connectors,         \* the CassandraConnector objects the manager has stored
    threads,            \* per caller: position in get_connector, its locals,
                        \* and what its current call has requested and printed
    fs,                 \* files of the directory <tmp>/cassandra-astra
    scb_dir,            \* TRUE when the directory <tmp>/cassandra-astra exists
    now,                \* time.time(), in seconds
    nconnectors,        \* CassandraConnector objects whose __init__ was entered
    nhandles,           \* cluster and session handles the driver has returned
    ncalls,             \* number of get_connector calls started
    pure                \* input and result of the function applied in isolation

vars == <<connection_params, connections, connectors, threads, fs, scb_dir,
          now, nconnectors, nhandles, ncalls, pure>>

----------------------------------------------------------------------------
(* Bounds *)

MaxCalls == 2
MaxSeconds == 1
MaxSegments == 7
MaxEntries == 3

----------------------------------------------------------------------------
(* str operations *)

None == <<>>

Min(a, b) == IF a < b THEN a ELSE b

Truthy(s) == s # <<>>

\* a or b
Or(a, b) == IF Truthy(a) THEN a ELSE b

\* index of the first occurrence of token sep in s, 0 when there is none
RECURSIVE Find(_, _, _)
Find(s, sep, i) ==
    IF i > Len(s) THEN 0
    ELSE IF s[i] = sep THEN i
    ELSE Find(s, sep, i + 1)

\* s.split(sep): the list of the pieces of s between occurrences of sep
RECURSIVE Split(_, _)
Split(s, sep) ==
    LET i == Find(s, sep, 1) IN
    IF i = 0 THEN <<s>>
    ELSE <<SubSeq(s, 1, i - 1)>> \o Split(SubSeq(s, i + 1, Len(s)), sep)

\* sep.join(parts)
RECURSIVE Join(_, _)
Join(parts, sep) ==
    IF Len(parts) = 0 THEN <<>>
    ELSE IF Len(parts) = 1 THEN parts[1]
    ELSE parts[1] \o <<sep>> \o Join(Tail(parts), sep)

\* s.replace(old, new) for a one-token old
RECURSIVE Replace(_, _, _)
Replace(s, old, new) ==
    IF Len(s) = 0 THEN <<>>
    ELSE (IF Head(s) = old THEN new ELSE <<Head(s)>>) \o Replace(Tail(s), old, new)

\* parts[:n] and parts[n:]
Take(parts, n) == SubSeq(parts, 1, Min(n, Len(parts)))
Drop(parts, n) == SubSeq(parts, n + 1, Len(parts))

\* urlparse(url).netloc: what follows the scheme, up to the first "/"
netloc(url) ==
    IF Len(url) = 0 \/ Head(url) # "https://" THEN <<>>
    ELSE LET rest == Tail(url)
             i    == Find(rest, "/", 1)
         IN  IF i = 0 THEN rest ELSE SubSeq(rest, 1, i - 1)

\* dict operations
Has(d, k) == k \in DOMAIN d
Get(d, k) == IF k \in DOMAIN d THEN d[k] ELSE None
Put(d, k, v) == [x \in DOMAIN d \cup {k} |-> IF x = k THEN v ELSE d[x]]

----------------------------------------------------------------------------
(* Constants of the program *)

AstraSuffix == ".apps.astra.datastax.com"

\* 360 * 24 * 60 * 60
MaxAge == 31104000

DefaultUrlTemplate ==
    <<"https://api.astra.datastax.com/v2/databases/", "{database_id}",
      "/secureBundleURL?all=true">>

\* os.path.join(gettempdir(), "cassandra-astra") followed by the separator
ScbDir == <<"<tmp>/cassandra-astra/">>

----------------------------------------------------------------------------
(* Exceptions and results *)

Exc(type, msg) == [type |-> type, msg |-> msg]

Ok(v)   == [ok |-> TRUE,  val |-> v,    exc |-> Exc("", None)]
Err(e)  == [ok |-> FALSE, val |-> None, exc |-> e]

MissingDatacenter ==
    Exc("ValueError", <<"Astra endpoint or datacenterID must be provided in args.">>)

NoBundleUrls == Exc("ValueError", <<"Failed to get secure bundle URLs.">>)

RegionNotFound(region) ==
    Exc("ValueError", <<"Specific bundle for region '">> \o region \o <<"' not found.">>)

NotInitialized(db_key) ==
    <<"Connection for '", db_key, "' could not be initialized.">>

NotConfigured(db_key) ==
    <<"Connection parameters for '", db_key, "' not configured.">>

----------------------------------------------------------------------------
(* CassandraConnector._get_or_download_secure_connect_bundle, the part     *)
(* that touches neither the file system nor the network                    *)

\* lines 231-232 with the bundle path honoured only when no endpoint is given
HasScb_NoEndpoint(astra_args) ==
    /\ Has(astra_args, "scb") /\ Truthy(astra_args["scb"])
    /\ ~(Has(astra_args, "endpoint") /\ Truthy(astra_args["endpoint"]))

\* lines 231-232: the explicit bundle path wins
HasScb(astra_args) == Has(astra_args, "scb") /\ Truthy(astra_args["scb"])

\* lines 237-244: datacenterID and regionName parsed from the endpoint
EndpointParts(endpoint) ==
    LET hostname_without_suffix == Split(netloc(endpoint), AstraSuffix)[1]
    IN  Split(hostname_without_suffix, "-")

\* line 243 keeping two segments, line 244 keeping one
ParsedDatacenterID_TwoParts(endpoint) == Join(Take(EndpointParts(endpoint), 2), "-")
ParsedRegionName_OnePart(endpoint) ==
    Join(Take(Drop(EndpointParts(endpoint), 5), 1), "-")

ParsedDatacenterID(endpoint) == Join(Take(EndpointParts(endpoint), 5), "-")
ParsedRegionName(endpoint)   == Join(Drop(EndpointParts(endpoint), 5), "-")

\* lines 235-250 with the explicit ids used only when both are given
ResolveIds_BothOrNone(astra_args) ==
    IF Has(astra_args, "endpoint") /\ Truthy(astra_args["endpoint"])
    THEN LET datacenterID == ParsedDatacenterID(astra_args["endpoint"])
             regionName   == ParsedRegionName(astra_args["endpoint"])
             both == /\ Truthy(Get(astra_args, "datacenterID"))
                     /\ Truthy(Get(astra_args, "regionName"))
         IN  IF both THEN Ok(astra_args)
             ELSE Ok(Put(Put(astra_args, "datacenterID", datacenterID),
                         "regionName", regionName))
    ELSE IF ~Has(astra_args, "datacenterID") \/ ~Truthy(astra_args["datacenterID"])
    THEN Err(MissingDatacenter)
    ELSE Ok(astra_args)

\* lines 235-250: astra_args after the ids are settled, or the ValueError
ResolveIds(astra_args) ==
    IF Has(astra_args, "endpoint") /\ Truthy(astra_args["endpoint"])
    THEN LET datacenterID == ParsedDatacenterID(astra_args["endpoint"])
             regionName   == ParsedRegionName(astra_args["endpoint"])
             a1 == Put(astra_args, "datacenterID",
                       Or(Get(astra_args, "datacenterID"), datacenterID))
         IN  Ok(Put(a1, "regionName", Or(Get(a1, "regionName"), regionName)))
    ELSE IF ~Has(astra_args, "datacenterID") \/ ~Truthy(astra_args["datacenterID"])
    THEN Err(MissingDatacenter)
    ELSE Ok(astra_args)

\* lines 256-259
ScbFilename(astra_args) ==
    <<"astra-secure-connect-">> \o astra_args["datacenterID"]
      \o (IF Has(astra_args, "regionName") /\ Truthy(astra_args["regionName"])
          THEN <<"-">> \o astra_args["regionName"] ELSE <<>>)
      \o <<".zip">>

\* line 260
ScbPath(astra_args) == ScbDir \o ScbFilename(astra_args)

\* line 262 with < for >
NeedsDownload_WhenFresh(files, path, t) ==
    path \notin DOMAIN files \/ t - files[path].mtime < MaxAge

\* line 262 with >= for >
NeedsDownload_AtLeast(files, path, t) ==
    path \notin DOMAIN files \/ t - files[path].mtime >= MaxAge

\* line 262: TRUE when the bundle has to be downloaded
NeedsDownload(files, path, t) ==
    path \notin DOMAIN files \/ t - files[path].mtime > MaxAge

----------------------------------------------------------------------------
(* CassandraConnector._get_secure_connect_bundle_url                       *)

\* lines 284-288
DiscoveryUrl(astra_args) ==
    Replace(IF Has(astra_args, "bundleUrlTemplate")
            THEN astra_args["bundleUrlTemplate"] ELSE DefaultUrlTemplate,
            "{database_id}", astra_args["datacenterID"])

\* line 306: index of the first bundle of data whose region is regionName, or 0
RECURSIVE FirstRegion(_, _, _)
FirstRegion(data, regionName, i) ==
    IF i > Len(data) THEN 0
    ELSE IF data[i].region = regionName THEN i
    ELSE FirstRegion(data, regionName, i + 1)

\* lines 297-312 falling back to the first bundle when the region is not found
SelectUrl_Fallback(data, astra_args) ==
    IF Len(data) = 0 THEN Err(NoBundleUrls)
    ELSE IF Has(astra_args, "regionName") /\ Truthy(astra_args["regionName"])
    THEN LET i == FirstRegion(data, astra_args["regionName"], 1)
         IN  IF i # 0 THEN Ok(data[i].downloadURL) ELSE Ok(data[1].downloadURL)
    ELSE Ok(data[1].downloadURL)

\* lines 297-312, data being the decoded JSON list of the response
SelectUrl(data, astra_args) ==
    IF Len(data) = 0 THEN Err(NoBundleUrls)
    ELSE IF Has(astra_args, "regionName") /\ Truthy(astra_args["regionName"])
    THEN LET i == FirstRegion(data, astra_args["regionName"], 1)
         IN  IF i # 0 THEN Ok(data[i].downloadURL)
             ELSE Err(RegionNotFound(astra_args["regionName"]))
    ELSE Ok(data[1].downloadURL)

----------------------------------------------------------------------------
(* Inputs: keys, callers, connection arguments, and what the network and   *)
(* the driver may answer                                                   *)

Keys == {"env_astra", "db"}

Threads == {1, 2}

Token == <<"T">>

\* the endpoint of the spec's scenario
ScenarioEndpoint ==
    <<"https://", "abcde", "-", "01234", "-", "region1", AstraSuffix>>

PlainTextAuthProvider == <<"cassandra.auth", ".", "PlainTextAuthProvider">>

ArgsScb      == [astra |-> [token |-> Token, endpoint |-> ScenarioEndpoint,
                            scb |-> <<"/bundles/", "mine", ".zip">>]]
ArgsScenario == [astra |-> [endpoint |-> ScenarioEndpoint, token |-> Token]]
ArgsExplicit == [astra |-> [token |-> <<"T2">>,
                            datacenterID |-> <<"abcde", "-", "01234">>,
                            regionName |-> <<"region1">>]]
ArgsNoId     == [astra |-> [token |-> Token]]
ArgsDirect   == [authProviderClass |-> PlainTextAuthProvider,
                 authProviderArgs |-> [username |-> <<"cassandra">>,
                                       password |-> <<"cassandra">>],
                 contact_points |-> <<"127.0.0.1">>]

\* get_connector called with no connection_args
NoArgs == <<>>

ConnectionArgs ==
    {NoArgs, ArgsScb, ArgsScenario, ArgsExplicit, ArgsNoId, ArgsDirect}

\* the configuration __init__ assembles from the ASTRA_DB_* environment
EnvAstra == [astra |-> [token |-> Token, endpoint |-> ScenarioEndpoint,
                        datacenterID |-> None, regionName |-> None, scb |-> None]]

UrlA == <<"https://bundles/", "A">>
UrlB == <<"https://bundles/", "B">>

\* the JSON lists the discovery service may answer with
DiscoveryData ==
    { <<>>,
      <<[region |-> <<"other">>, downloadURL |-> UrlA]>>,
      <<[region |-> <<"other">>, downloadURL |-> UrlA],
        [region |-> <<"region1">>, downloadURL |-> UrlB]>>,
      <<[region |-> <<"region1">>, downloadURL |-> UrlB],
        [region |-> <<"other">>, downloadURL |-> UrlA]>> }

\* response.content of a successful download of url
Content(url) == <<"zip:">> \o url

ScenarioPath ==
    ScbDir \o <<"astra-secure-connect-", "abcde", "-", "01234", "-", "region1", ".zip">>

----------------------------------------------------------------------------
(* State *)

NoResult == [kind |-> "none", id |-> 0, msg |-> None]

NoConnector == [id |-> 0, connection_args |-> <<>>, cluster |-> 0, session |-> 0,
                connectionType |-> ""]

\* a caller outside get_connector; self is the connector under construction
Idle == [pc |-> "idle", db_key |-> "", connection_args |-> <<>>,
         self |-> NoConnector, scb_path |-> None, data |-> <<>>,
         download_url |-> None, content |-> None, result |-> NoResult,
         requests |-> <<>>, driver |-> <<>>, stdout |-> <<>>, new |-> FALSE]

NoPure == [fn |-> "", arg |-> <<>>, data |-> <<>>, done |-> FALSE, res |-> <<>>]

\* the bundle files present before the program starts
InitialFiles ==
    { <<>>, [p \in {ScenarioPath} |-> [data |-> Content(UrlA), mtime |-> 0]] }

Init ==
    /\ connection_params \in
         { <<>>, [k \in {"env_astra"} |-> EnvAstra] }
    /\ connections = <<>>
    /\ connectors = <<>>
    /\ threads = [t \in Threads |-> Idle]
    /\ fs \in InitialFiles
    /\ scb_dir = (DOMAIN fs # {})
    /\ now = 0
    /\ nconnectors = 0
    /\ nhandles = 0
    /\ ncalls = 0
    /\ pure = NoPure

----------------------------------------------------------------------------
(* Helpers of the actions *)

\* the astra dict the connector of thread t works on: the very dict stored
\* under the key in _connection_params (** copies the outer dict only)
AstraArgs(t) == connection_params[threads[t].db_key]["astra"]

Returned(id)  == [kind |-> "connector", id |-> id, msg |-> None]
Raised(msg)   == [kind |-> "error", id |-> 0, msg |-> msg]

\* lines 81-84: an exception e left CassandraConnector(**params); th is the
\* caller's record when the exception is raised
Fail(t, th, e) ==
    threads' = [threads EXCEPT ![t] =
       [th EXCEPT !.pc = "done",
                  !.result = Raised(NotInitialized(th.db_key)),
                  !.stdout = th.stdout \o
                     << <<"Failed to setup connection for '", th.db_key, "'">>,
                        <<"Error: ">> \o e.msg >>]]

Goto(t, th, pc) == threads' = [threads EXCEPT ![t] = [th EXCEPT !.pc = pc]]

----------------------------------------------------------------------------
(* CassandraConnectionsManager.get_connector, up to the first blocking     *)
(* call of CassandraConnector.__init__                                     *)

\* line 146: self._connection_args.get('astra')
IsAstra(params) == Has(params, "astra") /\ DOMAIN params["astra"] # {}

\* lines 73-74 without the test of the key
StoreArgs_Overwrite(params, db_key, connection_args) ==
    IF DOMAIN connection_args # {}
    THEN Put(params, db_key, connection_args)
    ELSE params

\* lines 73-74 without the test of connection_args
StoreArgs_Always(params, db_key, connection_args) ==
    IF db_key \notin DOMAIN params
    THEN Put(params, db_key, connection_args)
    ELSE params

\* lines 73-74: _connection_params after the supplied arguments are stored
StoreArgs(params, db_key, connection_args) ==
    IF db_key \notin DOMAIN params /\ DOMAIN connection_args # {}
    THEN Put(params, db_key, connection_args)
    ELSE params

\* lines 143-151: the connector object as __init__ leaves it before set-up
NewConnector(id, connection_args) ==
    [id |-> id, connection_args |-> connection_args, cluster |-> 0, session |-> 0,
     connectionType |-> IF IsAstra(connection_args) THEN "astra" ELSE "cassandra"]

\* line 70 with the early return lost
AlreadyInitialized_Never(conns, db_key) == FALSE

\* line 70
AlreadyInitialized(conns, db_key) == db_key \in DOMAIN conns

\* lines 69-79 and 143-151
GetConnector(t, db_key, connection_args) ==
    /\ threads[t].pc \in {"idle", "done"}
    /\ ncalls < MaxCalls
    /\ ncalls' = ncalls + 1
    /\ UNCHANGED <<connections, connectors, fs, scb_dir, now, nhandles, pure>>
    /\ LET th == [Idle EXCEPT !.db_key = db_key,
                              !.connection_args = connection_args]
       IN
       IF AlreadyInitialized(connections, db_key)
       THEN /\ threads' = [threads EXCEPT ![t] =
                   [th EXCEPT !.pc = "done",
                              !.result = Returned(connections[db_key])]]
            /\ UNCHANGED <<connection_params, nconnectors>>
       ELSE LET params == StoreArgs(connection_params, db_key, connection_args)
            IN  /\ connection_params' = params
                /\ IF db_key \in DOMAIN params
                   THEN /\ nconnectors' = nconnectors + 1
                        /\ threads' = [threads EXCEPT ![t] =
                             [th EXCEPT
                                !.pc = IF IsAstra(params[db_key])
                                       THEN "resolve" ELSE "setup",
                                !.self = NewConnector(nconnectors + 1,
                                                      params[db_key])]]
                   ELSE /\ threads' = [threads EXCEPT ![t] =
                             [th EXCEPT !.pc = "done",
                                !.result = Raised(NotConfigured(db_key))]]
                        /\ UNCHANGED nconnectors

----------------------------------------------------------------------------
(* CassandraConnector._get_or_download_secure_connect_bundle               *)

\* lines 231-253 with the cache directory made before the identifiers are
\* checked
Resolve_MakedirsFirst(t) ==
    /\ threads[t].pc = "resolve"
    /\ UNCHANGED <<connections, connectors, fs, now, nconnectors,
                   nhandles, ncalls, pure>>
    /\ IF HasScb(AstraArgs(t))
       THEN /\ threads' = [threads EXCEPT ![t].pc = "setup",
                                          ![t].scb_path = AstraArgs(t)["scb"]]
            /\ UNCHANGED <<connection_params, scb_dir>>
       ELSE LET r == ResolveIds(AstraArgs(t)) IN
            /\ scb_dir' = TRUE
            /\ IF r.ok
               THEN /\ connection_params' =
                         [connection_params EXCEPT ![threads[t].db_key] =
                             Put(@, "astra", r.val)]
                    /\ Goto(t, threads[t], "stat")
               ELSE /\ Fail(t, threads[t], r.exc)
                    /\ UNCHANGED connection_params

\* lines 210-211 and 231-250
Resolve(t) ==
    /\ threads[t].pc = "resolve"
    /\ UNCHANGED <<connections, connectors, fs, scb_dir, now, nconnectors,
                   nhandles, ncalls, pure>>
    /\ IF HasScb(AstraArgs(t))
       THEN /\ threads' = [threads EXCEPT ![t].pc = "setup",
                                          ![t].scb_path = AstraArgs(t)["scb"]]
            /\ UNCHANGED connection_params
       ELSE LET r == ResolveIds(AstraArgs(t)) IN
            IF r.ok
            THEN /\ connection_params' =
                      [connection_params EXCEPT ![threads[t].db_key] =
                          Put(@, "astra", r.val)]
                 /\ Goto(t, threads[t], "stat")
            ELSE /\ Fail(t, threads[t], r.exc)
                 /\ UNCHANGED connection_params

\* lines 252-262
Stat(t) ==
    /\ threads[t].pc = "stat"
    /\ scb_dir' = TRUE
    /\ LET scb_path == ScbPath(AstraArgs(t)) IN
       threads' = [threads EXCEPT
          ![t].scb_path = scb_path,
          ![t].pc = IF NeedsDownload(fs, scb_path, now) THEN "post" ELSE "setup"]
    /\ UNCHANGED <<connection_params, connections, connectors, fs, now,
                   nconnectors, nhandles, ncalls, pure>>

HTTPError == Exc("HTTPError", <<"error status">>)

\* line 263: _get_secure_connect_bundle_url, lines 284-312
Post(t) ==
    /\ threads[t].pc = "post"
    /\ UNCHANGED <<connection_params, connections, connectors, fs, scb_dir, now,
                   nconnectors, nhandles, ncalls, pure>>
    /\ IF ~Has(AstraArgs(t), "token")
       THEN Fail(t, threads[t], Exc("KeyError", <<"'token'">>))
       ELSE LET th == [threads[t] EXCEPT !.requests = Append(@,
                         [method |-> "POST", url |-> DiscoveryUrl(AstraArgs(t)),
                          authorization |-> <<"Bearer ">> \o AstraArgs(t)["token"]])]
            IN  \/ Fail(t, th, HTTPError)
                \/ \E data \in DiscoveryData :
                     LET r == SelectUrl(data, AstraArgs(t)) IN
                     IF r.ok
                     THEN threads' = [threads EXCEPT ![t] =
                             [th EXCEPT !.pc = "get", !.data = data,
                                        !.download_url = r.val]]
                     ELSE Fail(t, [th EXCEPT !.data = data], r.exc)

\* lines 264-268 with the file opened before the status is checked
Download_OpenFirst(t) ==
    /\ threads[t].pc = "get"
    /\ LET th == [threads[t] EXCEPT !.requests = Append(@,
                    [method |-> "GET", url |-> threads[t].download_url,
                     authorization |-> None])]
       IN  \/ /\ Fail(t, th, HTTPError)
              /\ fs' = Put(fs, th.scb_path, [data |-> <<>>, mtime |-> now])
           \/ /\ threads' = [threads EXCEPT ![t] =
                    [th EXCEPT !.pc = "open", !.content = Content(th.download_url)]]
              /\ UNCHANGED fs
    /\ UNCHANGED <<connection_params, connections, connectors, scb_dir, now,
                   nconnectors, nhandles, ncalls, pure>>

\* lines 264-265
Download(t) ==
    /\ threads[t].pc = "get"
    /\ LET th == [threads[t] EXCEPT !.requests = Append(@,
                    [method |-> "GET", url |-> threads[t].download_url,
                     authorization |-> None])]
       IN  \/ Fail(t, th, HTTPError)
           \/ threads' = [threads EXCEPT ![t] =
                 [th EXCEPT !.pc = "open", !.content = Content(th.download_url)]]
    /\ UNCHANGED <<connection_params, connections, connectors, fs, scb_dir, now,
                   nconnectors, nhandles, ncalls, pure>>

\* line 267: open(scb_path, 'wb') creates or truncates the file
Open(t) ==
    /\ threads[t].pc = "open"
    /\ fs' = Put(fs, threads[t].scb_path, [data |-> <<>>, mtime |-> now])
    /\ Goto(t, threads[t], "write")
    /\ UNCHANGED <<connection_params, connections, connectors, scb_dir, now,
                   nconnectors, nhandles, ncalls, pure>>

\* lines 268-270: f.write(response.content) and the close of the with block
Write(t) ==
    /\ threads[t].pc = "write"
    /\ fs' = Put(fs, threads[t].scb_path,
                 [data |-> threads[t].content, mtime |-> now])
    /\ Goto(t, threads[t], "setup")
    /\ UNCHANGED <<connection_params, connections, connectors, scb_dir, now,
                   nconnectors, nhandles, ncalls, pure>>

----------------------------------------------------------------------------
(* CassandraConnector._setup_astra_connection and                          *)
(* CassandraConnector._setup_cassandra_connection                          *)

\* lines 212-216 with the token passed as the username
AstraConnectionArgs_TokenAsUsername(scb_path, astra_args) ==
    [cloud |-> [secure_connect_bundle |-> scb_path],
     authProviderClass |-> PlainTextAuthProvider,
     authProviderArgs |-> [username |-> astra_args["token"],
                           password |-> astra_args["token"]]]

\* lines 212-216: the arguments synthesized for an Astra connection
AstraConnectionArgs(scb_path, astra_args) ==
    [cloud |-> [secure_connect_bundle |-> scb_path],
     authProviderClass |-> PlainTextAuthProvider,
     authProviderArgs |-> [username |-> <<"token">>,
                           password |-> astra_args["token"]]]

\* index of the last occurrence of token sep in s[1..i], 0 when there is none
RECURSIVE FindLast(_, _, _)
FindLast(s, sep, i) ==
    IF i = 0 THEN 0
    ELSE IF s[i] = sep THEN i
    ELSE FindLast(s, sep, i - 1)

\* the classes __import__ and getattr can resolve: module path, class name
Importable == { <<<<"cassandra.auth">>, <<"PlainTextAuthProvider">>>> }

NoAuthProvider == [cls |-> None, args |-> <<>>]

\* lines 189-196: the auth provider built from the class name, or the exception
AuthProvider(auth_provider_class, auth_provider_args) ==
    IF ~Truthy(auth_provider_class)
    THEN [ok |-> TRUE, val |-> NoAuthProvider, exc |-> Exc("", None)]
    ELSE LET i == FindLast(auth_provider_class, ".", Len(auth_provider_class)) IN
         IF i = 0
         THEN [ok |-> FALSE, val |-> NoAuthProvider,
               exc |-> Exc("ValueError", <<"not enough values to unpack">>)]
         ELSE LET module_path == SubSeq(auth_provider_class, 1, i - 1)
                  class_name  == SubSeq(auth_provider_class, i + 1,
                                        Len(auth_provider_class))
              IN  IF <<module_path, class_name>> \in Importable
                  THEN [ok |-> TRUE,
                        val |-> [cls |-> class_name, args |-> auth_provider_args],
                        exc |-> Exc("", None)]
                  ELSE [ok |-> FALSE, val |-> NoAuthProvider,
                        exc |-> Exc("ImportError", auth_provider_class)]

\* lines 186-187: _connection_args once both auth keys are popped
Popped(connection_args) ==
    [x \in DOMAIN connection_args \ {"authProviderClass", "authProviderArgs"}
       |-> connection_args[x]]

DriverError == Exc("DriverError", <<"driver failure">>)

\* lines 212-217 (Astra only) and 186-199
Setup(t) ==
    /\ threads[t].pc = "setup"
    /\ LET args == IF threads[t].self.connectionType = "astra"
                   THEN AstraConnectionArgs(threads[t].scb_path, AstraArgs(t))
                   ELSE threads[t].self.connection_args
           ap   == AuthProvider(Get(args, "authProviderClass"),
                                Get(args, "authProviderArgs"))
           th0  == [threads[t] EXCEPT !.self.connection_args = Popped(args)]
           th1  == [th0 EXCEPT !.driver = Append(@,
                      [op |-> "Cluster", auth_provider |-> ap.val,
                       options |-> Popped(args)])]
       IN  IF ~ap.ok
           THEN /\ Fail(t, th0, ap.exc)
                /\ UNCHANGED nhandles
           ELSE \/ /\ Fail(t, th1, DriverError)
                   /\ UNCHANGED nhandles
                \/ /\ nhandles' = nhandles + 1
                   /\ Goto(t, [th1 EXCEPT !.self.cluster = nhandles + 1], "connect")
    /\ UNCHANGED <<connection_params, connections, connectors, fs, scb_dir, now,
                   nconnectors, ncalls, pure>>

\* line 200 with the entry of _connections written before the session is
\* opened, so that a failure of connect() leaves it behind
Connect_StoreFirst(t) ==
    /\ threads[t].pc = "connect"
    /\ LET th == [threads[t] EXCEPT !.driver = Append(@,
                    [op |-> "connect", cluster |-> threads[t].self.cluster])]
           self == [th.self EXCEPT !.session = nhandles + 1]
       IN  /\ connections' = Put(connections, th.db_key, self.id)
           /\ \/ /\ Fail(t, th, DriverError)
                 /\ connectors' = Put(connectors, self.id, th.self)
                 /\ UNCHANGED nhandles
              \/ /\ nhandles' = nhandles + 1
                 /\ connectors' = Put(connectors, self.id, self)
                 /\ threads' = [threads EXCEPT ![t] =
                       [th EXCEPT
                          !.pc = "done",
                          !.self = self,
                          !.result = Returned(connections'[th.db_key]),
                          !.stdout = Append(@, <<"Connection for '", th.db_key,
                                                 "' initialized successfully.">>)]]
    /\ UNCHANGED <<connection_params, fs, scb_dir, now, nconnectors, ncalls,
                   pure>>

\* line 200, and on success lines 79-80 and 85: the assignment, the print
\* and the return
Connect(t) ==
    /\ threads[t].pc = "connect"
    /\ LET th == [threads[t] EXCEPT !.driver = Append(@,
                    [op |-> "connect", cluster |-> threads[t].self.cluster])]
           self == [th.self EXCEPT !.session = nhandles + 1]
       IN  \/ /\ Fail(t, th, DriverError)
              /\ UNCHANGED <<nhandles, connections, connectors>>
           \/ /\ nhandles' = nhandles + 1
              /\ connections' = Put(connections, th.db_key, self.id)
              /\ connectors' = Put(connectors, self.id, self)
              /\ threads' = [threads EXCEPT ![t] =
                    [th EXCEPT
                       !.pc = "done",
                       !.self = self,
                       !.result = Returned(connections'[th.db_key]),
                       !.stdout = Append(@, <<"Connection for '", th.db_key,
                                              "' initialized successfully.">>)]]
    /\ UNCHANGED <<connection_params, fs, scb_dir, now, nconnectors, ncalls,
                   pure>>

\* time passes, by a second or by the age at which a bundle goes stale; the
\* clock stops MaxSeconds after time 0 and MaxSeconds after time MaxAge
Tick ==
    /\ \E d \in {1, MaxAge} :
          /\ (now + d) \div MaxAge <= 1
          /\ (now + d) % MaxAge <= MaxSeconds
          /\ now' = now + d
    /\ UNCHANGED <<connection_params, connections, connectors, threads, fs,
                   scb_dir, nconnectors, nhandles, ncalls, pure>>

----------------------------------------------------------------------------
(* Specifications *)

\* single-threaded use: one caller
Next ==
    \/ \E k \in Keys, a \in ConnectionArgs : GetConnector(1, k, a)
    \/ Resolve(1)
    \/ Stat(1)
    \/ Post(1)
    \/ Download(1)
    \/ Open(1)
    \/ Write(1)
    \/ Setup(1)
    \/ Connect(1)
    \/ Tick

Spec == Init /\ [][Next]_vars

\* the scenario's database configured again with another token
ArgsOtherToken == [astra |-> [endpoint |-> ScenarioEndpoint, token |-> <<"T2">>]]

\* single-threaded use with configurations of one database only
CacheArgs == {ArgsScenario, ArgsOtherToken}

NextCache ==
    \/ \E k \in Keys, a \in CacheArgs : GetConnector(1, k, a)
    \/ Resolve(1)
    \/ Stat(1)
    \/ Post(1)
    \/ Download(1)
    \/ Open(1)
    \/ Write(1)
    \/ Setup(1)
    \/ Connect(1)
    \/ Tick

SpecCache == Init /\ [][NextCache]_vars

\* concurrent use: every caller of Threads may be inside get_connector
ConcurrentArgs == {NoArgs, ArgsScenario, ArgsDirect}

NextConcurrent ==
    \/ \E t \in Threads, k \in Keys, a \in ConcurrentArgs : GetConnector(t, k, a)
    \/ \E t \in Threads : Resolve(t)
    \/ \E t \in Threads : Stat(t)
    \/ \E t \in Threads : Post(t)
    \/ \E t \in Threads : Download(t)
    \/ \E t \in Threads : Open(t)
    \/ \E t \in Threads : Write(t)
    \/ \E t \in Threads : Setup(t)
    \/ \E t \in Threads : Connect(t)

SpecConcurrent == Init /\ [][NextConcurrent]_vars

----------------------------------------------------------------------------
(* CassandraConnector.session and CassandraConnector.cluster               *)

\* lines 153-154: session is a property, so reading connector.session calls
\* the getter with self alone and new keeps its default, whatever the caller
\* wanted
SessionNew(wanted) == FALSE

\* lines 165-167: the session returned, h being the next handle of the driver
SessionOf(connector, new, h) == IF new THEN h ELSE connector.session

\* a caller reads connector.session of a stored connector, wanting a new
\* session or the default one
GetSession(t, id, wanted) ==
    /\ threads[t].pc \in {"idle", "done"}
    /\ ncalls < MaxCalls
    /\ ncalls' = ncalls + 1
    /\ id \in DOMAIN connectors
    /\ LET new == SessionNew(wanted) IN
       /\ nhandles' = IF new THEN nhandles + 1 ELSE nhandles
       /\ threads' = [threads EXCEPT ![t] =
            [Idle EXCEPT !.pc = "done", !.new = wanted,
               !.result = [kind |-> "session",
                           id |-> SessionOf(connectors[id], new, nhandles + 1),
                           msg |-> None]]]
    /\ UNCHANGED <<connection_params, connections, connectors, fs, scb_dir, now,
                   nconnectors, pure>>

\* lines 169-177: a caller reads connector.cluster of a stored connector
GetCluster(t, id) ==
    /\ threads[t].pc \in {"idle", "done"}
    /\ ncalls < MaxCalls
    /\ ncalls' = ncalls + 1
    /\ id \in DOMAIN connectors
    /\ threads' = [threads EXCEPT ![t] =
         [Idle EXCEPT !.pc = "done",
            !.result = [kind |-> "cluster", id |-> connectors[id].cluster,
                        msg |-> None]]]
    /\ UNCHANGED <<connection_params, connections, connectors, fs, scb_dir, now,
                   nconnectors, nhandles, pure>>

\* single-threaded use of the manager and of the connectors it returned
NextAccess ==
    \/ Next
    \/ \E id \in 1..MaxCalls, wanted \in BOOLEAN : GetSession(1, id, wanted)
    \/ \E id \in 1..MaxCalls : GetCluster(1, id)

SpecAccess == Init /\ [][NextAccess]_vars

----------------------------------------------------------------------------
(* The pure functions applied in isolation to bounded inputs *)

\* the state of a program that has not called get_connector, with input p
InitPure(p) ==
    /\ connection_params = <<>>
    /\ connections = <<>>
    /\ connectors = <<>>
    /\ threads = [t \in Threads |-> Idle]
    /\ fs = <<>>
    /\ scb_dir = FALSE
    /\ now = 0
    /\ nconnectors = 0
    /\ nhandles = 0
    /\ ncalls = 0
    /\ pure = p

UnchangedProgram ==
    UNCHANGED <<connection_params, connections, connectors, threads, fs, scb_dir,
                now, nconnectors, nhandles, ncalls>>

\* the lists of at most n elements of S
SeqUpTo(S, n) == UNION {[1..m -> S] : m \in 0..n}

\* host names made of dash-separated segments
Segments == {"a", "b"}
Hosts == SeqUpTo(Segments, MaxSegments) \ {<<>>}

\* 'https://' or nothing, the segments joined by dashes, a domain suffix
Endpoint(scheme, segs, suffix) ==
    scheme \o Join([i \in 1..Len(segs) |-> <<segs[i]>>], "-") \o suffix

EndpointSuffixes == { <<AstraSuffix>>, <<AstraSuffix, "/", "api">>, <<".example.com">> }

ExplicitIds == { None, <<"x", "-", "y">> }

\* astra_args with an endpoint, with and without explicit ids
ParseInputs ==
    { [fn |-> "resolve",
       arg |-> [endpoint |-> Endpoint(scheme, segs, suffix), token |-> Token,
                datacenterID |-> dc, regionName |-> rg],
       data |-> [segs |-> segs, scheme |-> scheme, suffix |-> suffix],
       done |-> FALSE, res |-> <<>>] :
      scheme \in { <<"https://">>, <<>> }, segs \in Hosts,
      suffix \in EndpointSuffixes, dc \in ExplicitIds, rg \in ExplicitIds }

InitParse == \E p \in ParseInputs : InitPure(p)

\* lines 235-260 and 284-288 applied to pure.arg
ApplyResolveIds ==
    /\ pure.fn = "resolve" /\ ~pure.done
    /\ LET r == ResolveIds(pure.arg) IN
       pure' = [pure EXCEPT !.done = TRUE,
                  !.res = [ids |-> r,
                           filename |-> IF r.ok THEN ScbFilename(r.val) ELSE None,
                           url |-> IF r.ok THEN DiscoveryUrl(r.val) ELSE None]]
    /\ UnchangedProgram

NextParse == ApplyResolveIds

SpecParse == InitParse /\ [][NextParse]_vars

\* discovery responses: lists of {region, downloadURL} objects
Regions == { <<"r1">>, <<"r2">> }
Bundles == [region : Regions, downloadURL : {UrlA, UrlB}]

RequestedRegions == { None, <<"r1">>, <<"r2">>, <<"r3">> }

SelectInputs ==
    { [fn |-> "select",
       arg |-> a,
       data |-> data, done |-> FALSE, res |-> <<>>] :
      a \in { [token |-> Token, datacenterID |-> <<"db">>] }
            \cup { [token |-> Token, datacenterID |-> <<"db">>, regionName |-> rg] :
                   rg \in RequestedRegions },
      data \in SeqUpTo(Bundles, MaxEntries) }

InitSelect == \E p \in SelectInputs : InitPure(p)

\* lines 297-312 applied to the response pure.data and to pure.arg
ApplySelectUrl ==
    /\ pure.fn = "select" /\ ~pure.done
    /\ pure' = [pure EXCEPT !.done = TRUE, !.res = SelectUrl(pure.data, pure.arg)]
    /\ UnchangedProgram

NextSelect == ApplySelectUrl

SpecSelect == InitSelect /\ [][NextSelect]_vars

----------------------------------------------------------------------------
(* Properties of single-threaded use *)

\* the caller's call has returned a connector
ReturnedConnector(t) ==
    threads[t].pc = "done" /\ threads[t].result.kind = "connector"

\* C1: in single-threaded use, a call that returns a connector for a key
\* returns the one stored under the key; an entry of _connections is never
\* replaced or removed; and a CassandraConnector is constructed only by a call
\* for a key that has no entry.  Hence once a call for k has returned a
\* connector, every later call for k returns that same object.
C1_SameConnector ==
    /\ [](ReturnedConnector(1) =>
            /\ threads[1].db_key \in DOMAIN connections
            /\ threads[1].result.id = connections[threads[1].db_key])
    /\ [][\A k \in DOMAIN connections :
            k \in DOMAIN connections' /\ connections'[k] = connections[k]]_vars
    /\ [][nconnectors' # nconnectors =>
            threads'[1].db_key \notin DOMAIN connections]_vars

\* a second call for a realized key has returned the stored connector without
\* constructing anything
C1_Witness ==
    /\ ReturnedConnector(1)
    /\ threads[1].self = NoConnector
    /\ ncalls = 2 /\ nconnectors = 1
    /\ threads[1].result.id = 1

\* C4: in single-threaded use, when the construction of the connector fails
\* inside get_connector(k), the call raises the ValueError "Connection for 'k'
\* could not be initialized.", k has no entry in _connections, and the call has
\* made each request and each driver call at most once (no retry); the next
\* get_connector(k) enters CassandraConnector.__init__ again.
ConstructionFailed(t) ==
    /\ threads[t].pc = "done"
    /\ threads[t].self.id # 0
    /\ threads[t].result.kind # "connector"

Count(seq, field, v) ==
    Cardinality({i \in 1..Len(seq) : seq[i][field] = v})

C4_FailedConstruction ==
    /\ [](ConstructionFailed(1) =>
            /\ threads[1].result =
                 [kind |-> "error", id |-> 0,
                  msg |-> <<"Connection for '", threads[1].db_key,
                            "' could not be initialized.">>]
            /\ threads[1].db_key \notin DOMAIN connections
            /\ Count(threads[1].requests, "method", "POST") <= 1
            /\ Count(threads[1].requests, "method", "GET") <= 1
            /\ Count(threads[1].driver, "op", "Cluster") <= 1
            /\ Count(threads[1].driver, "op", "connect") <= 1)
    /\ [][(/\ ConstructionFailed(1)
           /\ ncalls' = ncalls + 1
           /\ threads'[1].db_key = threads[1].db_key)
          => /\ nconnectors' = nconnectors + 1
             /\ threads'[1].pc \in {"resolve", "setup"}
             /\ threads'[1].self.id = nconnectors + 1
             /\ threads'[1].self.cluster = 0
             /\ threads'[1].requests = <<>>
             /\ threads'[1].driver = <<>>]_vars

\* a second construction for the only configured key has started after the
\* first one failed
C4_Witness ==
    /\ ncalls = 2 /\ nconnectors = 2
    /\ connections = <<>>
    /\ Cardinality(DOMAIN connection_params) = 1
    /\ threads[1].pc \in {"resolve", "setup"}

\* C5: a get_connector(k) call made with no connection_args, for a key k that
\* has neither an entry in _connections nor one in _connection_params, raises
\* the ValueError "Connection parameters for 'k' not configured.", constructs
\* no connector and leaves _connection_params and _connections unchanged.
C5_NotConfigured ==
    [][(/\ ncalls' = ncalls + 1
        /\ threads'[1].db_key \notin DOMAIN connections
        /\ threads'[1].db_key \notin DOMAIN connection_params
        /\ DOMAIN threads'[1].connection_args = {})
       => /\ threads'[1].pc = "done"
          /\ threads'[1].result =
               [kind |-> "error", id |-> 0,
                msg |-> <<"Connection parameters for '", threads'[1].db_key,
                          "' not configured.">>]
          /\ threads'[1].self = NoConnector
          /\ nconnectors' = nconnectors
          /\ connection_params' = connection_params
          /\ connections' = connections]_vars

\* a call for the key "db" has failed as not configured
C5_Witness ==
    /\ threads[1].pc = "done"
    /\ threads[1].result.msg =
         <<"Connection parameters for '", "db", "' not configured.">>
    /\ DOMAIN threads[1].connection_args = {}
    /\ "db" \notin DOMAIN connection_params

\* the connector under construction by t is an Astra one whose configuration
\* supplies a non-empty 'scb'
ExplicitScb(t) ==
    /\ threads[t].self.connectionType = "astra"
    /\ "scb" \in DOMAIN AstraArgs(t)
    /\ AstraArgs(t)["scb"] # <<>>

\* C6: when the Astra configuration supplies a non-empty 'scb', bundle
\* resolution returns exactly that path, the call issues no HTTP request, and
\* neither the cache directory nor any file in it is created or modified.
C6_ExplicitBundle ==
    /\ [](ExplicitScb(1) /\ threads[1].pc \in {"setup", "connect", "done"} =>
            /\ threads[1].scb_path = AstraArgs(1)["scb"]
            /\ threads[1].requests = <<>>)
    /\ [][(ExplicitScb(1))' => (fs' = fs /\ scb_dir' = scb_dir)]_vars

\* a connector was realized from an explicit bundle while the cache held a file
C6_Witness ==
    /\ ExplicitScb(1)
    /\ ReturnedConnector(1)
    /\ threads[1].scb_path = <<"/bundles/", "mine", ".zip">>
    /\ DOMAIN fs # {}

\* the connector under construction by t is an Astra one without explicit 'scb'
CachedBundle(t) ==
    /\ threads[t].self.connectionType = "astra"
    /\ ~ExplicitScb(t)

\* C7: without an explicit bundle path, a file at the computed cache path whose
\* age is at most 360 days makes resolution return the path with no request;
\* an absent file or an age above 360 days makes it go on to the discovery
\* request, and the path is then returned only after the discovery POST and
\* the download GET, in this order.
C7_Freshness ==
    /\ [][(threads[1].pc = "stat" /\ threads'[1].pc # "stat") =>
           LET path == threads'[1].scb_path IN
           /\ (path \in DOMAIN fs /\ now - fs[path].mtime <= 360 * 24 * 60 * 60)
                => (threads'[1].pc = "setup" /\ threads'[1].requests = <<>>)
           /\ (path \notin DOMAIN fs \/ now - fs[path].mtime > 360 * 24 * 60 * 60)
                => threads'[1].pc = "post"]_vars
    /\ [][((CachedBundle(1))' /\ threads'[1].pc = "setup"
                              /\ threads[1].pc # "setup") =>
           \/ threads[1].pc = "stat" /\ threads'[1].requests = <<>>
           \/ /\ threads[1].pc = "write"
              /\ Len(threads'[1].requests) = 2
              /\ threads'[1].requests[1].method = "POST"
              /\ threads'[1].requests[2].method = "GET"]_vars

\* a cached file one second older than 360 days has sent resolution to discovery
C7_Witness ==
    /\ threads[1].pc = "post"
    /\ threads[1].scb_path \in DOMAIN fs
    /\ now - fs[threads[1].scb_path].mtime = 360 * 24 * 60 * 60 + 1

\* the connector under construction by t is an Astra one configured with the
\* scenario's endpoint and token and no explicit bundle path, and its bundle
\* resolution has returned after downloading
ScenarioDownloaded(t) ==
    /\ CachedBundle(t)
    /\ "endpoint" \in DOMAIN AstraArgs(t)
    /\ AstraArgs(t)["endpoint"] =
         <<"https://", "abcde", "-", "01234", "-", "region1",
           ".apps.astra.datastax.com">>
    /\ AstraArgs(t)["token"] = <<"T">>
    /\ threads[t].pc = "setup"
    /\ threads[t].requests # <<>>

ScenarioFile ==
    <<"<tmp>/cassandra-astra/", "astra-secure-connect-", "abcde", "-", "01234",
      "-", "region1", ".zip">>

\* C9 as claimed: for the scenario's configuration with no cached file (at
\* time 0 no file can be stale), the discovery URL carries the database id
\* 'abcde-01234', the region 'region1' is requested, the downloadURL of the
\* entry whose region is 'region1' is fetched, the file
\* astra-secure-connect-abcde-01234-region1.zip is written and its path returned.
C9_AsClaimed ==
    (ScenarioDownloaded(1) /\ now = 0) =>
      /\ Len(threads[1].requests) = 2
      /\ threads[1].requests[1].method = "POST"
      /\ threads[1].requests[1].url =
           <<"https://api.astra.datastax.com/v2/databases/", "abcde", "-", "01234",
             "/secureBundleURL?all=true">>
      /\ AstraArgs(1)["regionName"] = <<"region1">>
      /\ threads[1].requests[2].method = "GET"
      /\ \E i \in 1..Len(threads[1].data) :
           /\ threads[1].data[i].region = <<"region1">>
           /\ threads[1].requests[2].url = threads[1].data[i].downloadURL
      /\ ScenarioFile \in DOMAIN fs
      /\ fs[ScenarioFile].data = <<"zip:">> \o threads[1].requests[2].url
      /\ threads[1].scb_path = ScenarioFile

\* C9 as amended: the host has three segments only, so all of them make the
\* datacenterID: the discovery POST goes to the URL of database id
\* 'abcde-01234-region1' with the bearer token, no region is requested, the
\* downloadURL of the first entry of the response is fetched next, its body is
\* written to astra-secure-connect-abcde-01234-region1.zip, and that path is
\* returned.
C9_Scenario ==
    ScenarioDownloaded(1) =>
      /\ Len(threads[1].requests) = 2
      /\ threads[1].requests[1] =
           [method |-> "POST",
            url |-> <<"https://api.astra.datastax.com/v2/databases/",
                      "abcde", "-", "01234", "-", "region1",
                      "/secureBundleURL?all=true">>,
            authorization |-> <<"Bearer ", "T">>]
      /\ AstraArgs(1)["datacenterID"] = <<"abcde", "-", "01234", "-", "region1">>
      /\ AstraArgs(1)["regionName"] = <<>>
      /\ threads[1].requests[2].method = "GET"
      /\ threads[1].requests[2].url = threads[1].data[1].downloadURL
      /\ ScenarioFile \in DOMAIN fs
      /\ fs[ScenarioFile].data = <<"zip:">> \o threads[1].data[1].downloadURL
      /\ threads[1].scb_path = ScenarioFile

\* the scenario at time 0, answered with a list whose second entry is the one
\* of region 'region1': the first entry's URL was fetched
C9_Witness ==
    /\ ScenarioDownloaded(1)
    /\ now = 0
    /\ Len(threads[1].data) = 2
    /\ threads[1].data[2].region = <<"region1">>
    /\ threads[1].download_url = threads[1].data[1].downloadURL
    /\ threads[1].download_url # threads[1].data[2].downloadURL

----------------------------------------------------------------------------
(* Properties of the pure functions *)

C10_EndpointParsing ==
    LET segs == pure.data.segs
        n    == Len(segs)
    IN  (/\ pure.fn = "resolve" /\ pure.done
         /\ pure.data.scheme = <<"https://">>
         /\ pure.data.suffix[1] = ".apps.astra.datastax.com"
         /\ n >= 5
         /\ pure.arg["datacenterID"] = <<>> /\ pure.arg["regionName"] = <<>>)
        => LET dc == <<segs[1], "-", segs[2], "-", segs[3], "-", segs[4], "-",
                       segs[5]>>
               rg == [i \in 1..(2 * (n - 5) - 1) |->
                         IF i % 2 = 1 THEN segs[5 + (i + 1) \div 2] ELSE "-"]
           IN  /\ pure.res.ids.ok
               /\ pure.res.ids.val["datacenterID"] = dc
               /\ pure.res.ids.val["regionName"] = (IF n = 5 THEN <<>> ELSE rg)
               /\ pure.res.filename =
                    IF n = 5
                    THEN <<"astra-secure-connect-">> \o dc \o <<".zip">>
                    ELSE <<"astra-secure-connect-">> \o dc \o <<"-">> \o rg
                           \o <<".zip">>

\* a host of seven segments: the region is the sixth and the seventh
C10_Witness ==
    /\ pure.fn = "resolve" /\ pure.done
    /\ pure.data.scheme = <<"https://">>
    /\ pure.data.suffix = <<".apps.astra.datastax.com">>
    /\ pure.arg["datacenterID"] = <<>> /\ pure.arg["regionName"] = <<>>
    /\ pure.data.segs = <<"a", "b", "a", "b", "a", "b", "a">>
    /\ pure.res.ids.val["regionName"] = <<"b", "-", "a">>

----------------------------------------------------------------------------
(* Properties of concurrent use *)

\* the caller's call has printed that it initialized the connection
Initialized(t) ==
    /\ threads[t].stdout # <<>>
    /\ threads[t].stdout[Len(threads[t].stdout)] =
         <<"Connection for '", threads[t].db_key, "' initialized successfully.">>

\* C2: callers that have been handed a connector for the same key hold the same
\* connector, and at most one of them constructed it ("initialized
\* successfully" is printed once).
C2_SingleConstruction ==
    \A t1, t2 \in Threads :
       (/\ t1 # t2
        /\ ReturnedConnector(t1) /\ ReturnedConnector(t2)
        /\ threads[t1].db_key = threads[t2].db_key)
       => /\ threads[t1].result.id = threads[t2].result.id
          /\ ~(Initialized(t1) /\ Initialized(t2))

\* C3: at every moment a file of the cache directory holds a complete bundle:
\* the whole body of some download response.
C3_NoPartialFile ==
    \A path \in DOMAIN fs :
       \E url \in {UrlA, UrlB} : fs[path].data = <<"zip:">> \o url

----------------------------------------------------------------------------
(* Properties of the accessors *)

\* C11: a caller that reads the session accessor asking for a brand-new
\* session receives a session that is not the cached default session of any
\* connector.
C11_NewSession ==
    (/\ threads[1].pc = "done"
     /\ threads[1].result.kind = "session"
     /\ threads[1].new)
    => \A id \in DOMAIN connectors :
          threads[1].result.id # connectors[id].session

----------------------------------------------------------------------------
(* Properties of bundle resolution and of the stored configurations *)

\* caller t is in, or has finished, a construction from an Astra
\* configuration
AstraCall(t) ==
    threads[t].self.id # 0 /\ threads[t].self.connectionType = "astra"

Given(astra_args, key) == key \in DOMAIN astra_args /\ astra_args[key] # <<>>

\* the configuration caller t constructs from has no bundle path, no
\* endpoint and no datacenterID
NoIdentifier(t) ==
    /\ AstraCall(t)
    /\ ~Given(AstraArgs(t), "scb")
    /\ ~Given(AstraArgs(t), "endpoint")
    /\ ~Given(AstraArgs(t), "datacenterID")

\* C12: a construction from an Astra configuration with no bundle path, no
\* endpoint and no datacenterID ends at bundle resolution with the error
\* "Astra endpoint or datacenterID must be provided in args."; it sends no
\* request, makes no driver call, and no step of it creates the cache
\* directory or changes a file.
C12_MissingDatacenter ==
    /\ [](NoIdentifier(1) =>
            /\ threads[1].pc \in {"resolve", "done"}
            /\ threads[1].requests = <<>>
            /\ threads[1].driver = <<>>
            /\ threads[1].pc = "done" =>
                 /\ threads[1].result.kind = "error"
                 /\ threads[1].stdout =
                      << <<"Failed to setup connection for '", threads[1].db_key, "'">>,
                         <<"Error: ",
                           "Astra endpoint or datacenterID must be provided in args.">> >>)
    /\ [][(NoIdentifier(1))' => (fs' = fs /\ scb_dir' = scb_dir)]_vars

\* such a construction has failed while the cache directory does not exist
C12_Witness ==
    /\ NoIdentifier(1)
    /\ threads[1].pc = "done"
    /\ ~scb_dir
    /\ fs = <<>>

\* C13: no step changes the configuration stored for a key, the nested
\* astra record included.
C13_Immutable ==
    [][\A k \in DOMAIN connection_params :
          connection_params'[k] = connection_params[k]]_vars

\* the positions of a caller inside _get_or_download_secure_connect_bundle
ResolutionPcs == {"resolve", "stat", "post", "get", "open", "write"}

\* C14: in a construction from an Astra configuration the driver is not
\* called and the connector has no cluster and no session while the bundle
\* is being resolved; the first driver call is Cluster with the
\* PlainTextAuthProvider of username 'token' and the configuration's token as
\* password, and with the resolved path as cloud.secure_connect_bundle; a
\* construction that fails during resolution ends with no driver call, no
\* cluster, no session and no stored connector.
C14_Sequential ==
    /\ [](AstraCall(1) =>
            /\ threads[1].pc \in ResolutionPcs =>
                 /\ threads[1].driver = <<>>
                 /\ threads[1].self.cluster = 0
                 /\ threads[1].self.session = 0
            /\ threads[1].self.cluster # 0 => threads[1].driver # <<>>
            /\ threads[1].driver # <<>> =>
                 /\ threads[1].scb_path # <<>>
                 /\ threads[1].driver[1] =
                      [op |-> "Cluster",
                       auth_provider |->
                          [cls |-> <<"PlainTextAuthProvider">>,
                           args |-> [username |-> <<"token">>,
                                     password |-> AstraArgs(1)["token"]]],
                       options |->
                          [cloud |-> [secure_connect_bundle |->
                                         threads[1].scb_path]]])
    /\ [][(/\ AstraCall(1)
           /\ threads[1].pc \in ResolutionPcs
           /\ threads'[1].pc = "done")
          => /\ threads'[1].result.kind = "error"
             /\ threads'[1].driver = <<>>
             /\ threads'[1].self.cluster = 0
             /\ threads'[1].self.session = 0
             /\ connections' = connections
             /\ connectors' = connectors]_vars

\* the cluster handle exists for a bundle that was downloaded to the cache
C14_Witness ==
    /\ AstraCall(1)
    /\ threads[1].pc = "connect"
    /\ Len(threads[1].requests) = 2
    /\ threads[1].self.cluster # 0
    /\ threads[1].driver[1].options.cloud.secure_connect_bundle = ScenarioPath
    /\ ScenarioPath \in DOMAIN fs

C17_FirstStored ==
    [][ncalls' = ncalls + 1 =>
         LET k    == threads'[1].db_key
             args == threads'[1].connection_args
         IN  /\ k \in DOMAIN connection_params =>
                  /\ connection_params' = connection_params
                  /\ k \notin DOMAIN connections =>
                       /\ threads'[1].pc \in {"resolve", "setup"}
                       /\ nconnectors' = nconnectors + 1
                       /\ threads'[1].self.id = nconnectors + 1
                       /\ threads'[1].self.connection_args = connection_params[k]
             /\ (k \notin DOMAIN connection_params /\ args # <<>>) =>
                  /\ DOMAIN connection_params' = DOMAIN connection_params \cup {k}
                  /\ connection_params'[k] = args
                  /\ \A j \in DOMAIN connection_params :
                        connection_params'[j] = connection_params[j]
             /\ (k \notin DOMAIN connection_params /\ args = <<>>) =>
                  connection_params' = connection_params]_vars

\* after a failed construction for the only configured key, a call that
\* carries other connection_args has started a construction from the stored
\* configuration
C17_Witness ==
    /\ ncalls = 2
    /\ nconnectors = 2
    /\ connections = <<>>
    /\ DOMAIN connection_params = {threads[1].db_key}
    /\ threads[1].pc \in {"resolve", "setup"}
    /\ threads[1].driver = <<>>
    /\ threads[1].connection_args # <<>>
    /\ threads[1].connection_args # threads[1].self.connection_args
    /\ threads[1].self.connection_args = connection_params[threads[1].db_key]

\* C18: when bundle resolution looks at the cache, the path is made of the
\* resolved datacenterID and regionName only; if the file at that path
\* exists and is less than 360 days old, resolution returns that path, sends
\* no request and leaves the files as they are, whatever the token.
C18_NoDuplicateDownload ==
    [][(threads[1].pc = "stat" /\ threads'[1].pc # "stat") =>
         LET a    == AstraArgs(1)
             path == <<"<tmp>/cassandra-astra/", "astra-secure-connect-">>
                       \o a["datacenterID"]
                       \o (IF Given(a, "regionName")
                           THEN <<"-">> \o a["regionName"] ELSE <<>>)
                       \o <<".zip">>
         IN  (path \in DOMAIN fs /\ now - fs[path].mtime < 360 * 24 * 60 * 60)
             => /\ threads'[1].pc = "setup"
                /\ threads'[1].scb_path = path
                /\ threads'[1].requests = <<>>
                /\ fs' = fs]_vars

\* the second call resolves, with token T2 and with no request, to the file
\* that the first call downloaded with token T for the same identifiers
C18_Witness ==
    /\ ncalls = 2
    /\ AstraCall(1)
    /\ threads[1].pc = "setup"
    /\ threads[1].requests = <<>>
    /\ threads[1].scb_path \in DOMAIN fs
    /\ fs[threads[1].scb_path].mtime > 0
    /\ AstraArgs(1)["token"] = <<"T2">>
    /\ \E k \in DOMAIN connection_params \ {threads[1].db_key} :
          LET b == connection_params[k]["astra"] IN
          /\ b["token"] = <<"T">>
          /\ Given(b, "datacenterID")
          /\ b["datacenterID"] = AstraArgs(1)["datacenterID"]
          /\ b["regionName"] = AstraArgs(1)["regionName"]

\* C19: the cache path a resolution uses is never the cache path of a stored
\* configuration whose resolved (datacenterID, regionName) pair is another
\* pair.
C19_PathIdentifiesPair ==
    \A k \in DOMAIN connection_params :
       LET b == connection_params[k] IN
       (/\ AstraCall(1)
        /\ ~Given(AstraArgs(1), "scb")
        /\ threads[1].scb_path # <<>>
        /\ IsAstra(b)
        /\ ~Given(b["astra"], "scb")
        /\ Given(b["astra"], "datacenterID")
        /\ <<b["astra"]["datacenterID"], Get(b["astra"], "regionName")>>
             # <<AstraArgs(1)["datacenterID"], Get(AstraArgs(1), "regionName")>>)
       => threads[1].scb_path # ScbPath(b["astra"])

----------------------------------------------------------------------------
(* Properties of the identifiers, in isolation *)

\* segs[lo], ..., segs[hi] with dashes between them
Dashed(segs, lo, hi) ==
    IF hi < lo THEN <<>>
    ELSE [i \in 1..(2 * (hi - lo + 1) - 1) |->
            IF i % 2 = 1 THEN segs[lo - 1 + (i + 1) \div 2] ELSE "-"]

\* C16: for an endpoint https://s1-...-sn.apps.astra.datastax.com the
\* resolved datacenterID is the explicit one when it is not empty and
\* otherwise the first five segments, the resolved regionName is the explicit
\* one when it is not empty and otherwise the segments after the fifth, each
\* whatever the other is; the discovery URL holds the resolved datacenterID
\* and the file name holds both.
C16_ExplicitWins ==
    LET segs == pure.data.segs
        n    == Len(segs)
        dc   == IF pure.arg["datacenterID"] # <<>> THEN pure.arg["datacenterID"]
                ELSE Dashed(segs, 1, IF n < 5 THEN n ELSE 5)
        rg   == IF pure.arg["regionName"] # <<>> THEN pure.arg["regionName"]
                ELSE Dashed(segs, 6, n)
    IN  (/\ pure.fn = "resolve" /\ pure.done
         /\ pure.data.scheme = <<"https://">>
         /\ pure.data.suffix[1] = ".apps.astra.datastax.com")
        => /\ pure.res.ids.ok
           /\ pure.res.ids.val["datacenterID"] = dc
           /\ pure.res.ids.val["regionName"] = rg
           /\ pure.res.url =
                <<"https://api.astra.datastax.com/v2/databases/">> \o dc
                  \o <<"/secureBundleURL?all=true">>
           /\ pure.res.filename =
                <<"astra-secure-connect-">> \o dc
                  \o (IF rg # <<>> THEN <<"-">> \o rg ELSE <<>>) \o <<".zip">>

\* an explicit datacenterID next to a region parsed from the sixth segment
C16_Witness ==
    /\ pure.fn = "resolve" /\ pure.done
    /\ pure.data.scheme = <<"https://">>
    /\ pure.data.suffix = <<".apps.astra.datastax.com">>
    /\ pure.data.segs = <<"a", "b", "a", "b", "a", "b">>
    /\ pure.arg["datacenterID"] = <<"x", "-", "y">>
    /\ pure.arg["regionName"] = <<>>
    /\ pure.res.ids.val["datacenterID"] = <<"x", "-", "y">>
    /\ pure.res.ids.val["regionName"] = <<"b">>
    /\ pure.res.filename = <<"astra-secure-connect-", "x", "-", "y", "-", "b", ".zip">>

====
